---- MODULE Spec2Model ----
(***************************************************************************)
(* A state-machine model of daily_report.py: a linear batch script that    *)
(* fetches price histories, derives the returns table, renders four        *)
(* charts, fetches market caps, ranks and aggregates them, and writes an   *)
(* HTML summary.  Every module-level step of the script is one action; an  *)
(* uncaught exception ends the run in pc = "aborted" with the exception    *)
(* recorded in `error`.                                                    *)
(*                                                                         *)
(* Numbers: pandas works in IEEE doubles.  The model keeps every float as  *)
(* an exact fraction [nan, num, den] (den > 0), NaN being nan = TRUE.      *)
(***************************************************************************)
EXTENDS Integers, Sequences, FiniteSets, TLC

(* ---------------- bounds of the model ---------------- *)

\* number of trading dates inside the look-back window (src line 22 asks
\* the provider for 10 calendar days)
MaxDates == 2

\* market caps the provider can report: 1..MaxCap (raw currency units)
MaxCap == 2

(* ---------------- configuration (src lines 13-18) ---------------- *)

\* portfolio_stocks.keys(), in insertion order
Tickers == <<"ICICIBANK.NS", "HDFCBANK.NS", "CDSL.NS", "ETERNAL.NS">>

TickerSet == {Tickers[i] : i \in 1..Len(Tickers)}

\* portfolio_stocks[t]["sector"]
SectorOf(t) ==
    CASE t = "ICICIBANK.NS" -> "Banking"
      [] t = "HDFCBANK.NS" -> "Financial Services"
      [] t = "CDSL.NS" -> "Financial Services"
      [] t = "ETERNAL.NS" -> "Consumer Services"

\* position of a ticker in the configuration
TickerNo(t) == CHOOSE i \in 1..Len(Tickers) : Tickers[i] = t

\* rank of a ticker in the lexicographic order of the ticker strings, the
\* order returns.sort_index() puts the rows in
LexRank(t) ==
    CASE t = "CDSL.NS" -> 1
      [] t = "ETERNAL.NS" -> 2
      [] t = "HDFCBANK.NS" -> 3
      [] t = "ICICIBANK.NS" -> 4

(* ---------------- values ---------------- *)

NaN == [nan |-> TRUE, num |-> 0, den |-> 1]

Num(n, d) == [nan |-> FALSE, num |-> n, den |-> d]

\* missing market cap (Python None)
None == [known |-> FALSE, cap |-> 0]

Known(c) == [known |-> TRUE, cap |-> c]

\* an index entry is a date (a Timestamp, which has strftime) or a text label
Dates == 1..MaxDates

Timestamp(d) == [kind |-> "date", ord |-> d, dd |-> 0, mm |-> 0, yyyy |-> 0]

HasStrftime(x) == x.kind = "date"

\* date_fmt: the dd-mm-YYYY label of a Timestamp.  The window is anchored at
\* 30-01-2025 so that it runs over a month end.
date_fmt(x) ==
    [kind |-> "str", ord |-> 0,
     dd |-> ((29 + x.ord - 1) % 31) + 1,
     mm |-> 1 + ((29 + x.ord - 1) \div 31),
     yyyy |-> 2025]

(* ---------------- sequences ---------------- *)

Range(s) == {s[i] : i \in 1..Len(s)}

\* the ascending sequence of a finite set of integers
RECURSIVE SortedSeq(_)
SortedSeq(S) ==
    IF S = {} THEN <<>>
    ELSE LET m == CHOOSE x \in S : \A y \in S : x <= y
         IN <<m>> \o SortedSeq(S \ {m})

\* position of a label in an index, 0 when absent
PosIn(idx, x) ==
    IF \E i \in 1..Len(idx) : idx[i] = x
    THEN CHOOSE i \in 1..Len(idx) : idx[i] = x
    ELSE 0

(* ---------------- step 1: price histories ---------------- *)

\* the provider's closing price of ticker t on date d: positive, and
\* different from day to day and from ticker to ticker.  What a run can
\* differ in is which dates a history covers (Histories below).
ProviderClose(t, d) == 100 + ((3 * TickerNo(t) + 2 * d) % 5)

\* a DataFrame as the script uses it: its index, the columns it has, and
\* the two columns the script reads or writes
Frame(S, t) ==
    LET ds == SortedSeq(S)
    IN [index |-> [i \in 1..Len(ds) |-> Timestamp(ds[i])],
        columns |-> IF S = {} THEN {} ELSE {"Close"},
        Close |-> [i \in 1..Len(ds) |-> ProviderClose(t, ds[i])],
        DailyReturn |-> <<>>]

FrameEmpty(df) == Len(df.index) = 0

NoFrame == Frame({}, Tickers[1])

(* ---------------- state ---------------- *)

VARIABLES
    pc,                \* the module-level step the script is about to run
    error,             \* the uncaught exception that ended the run, or "none"
    steps,             \* the steps completed so far, in order
    printed,           \* what the last step wrote to the console
    stock_data,        \* ticker -> price DataFrame (src line 34)
    returns,           \* the returns table (src lines 37-49)
    market_cap,        \* portfolio_stocks[t]["market_cap"]
    df_portfolio,      \* the ranked table (src lines 92-94)
    sector_caps,       \* sector -> summed market cap in crore (src line 111)
    sector_percentage, \* sector -> percentage share (src line 112)
    artifacts          \* files written to OUTPUT_DIR

vars == <<pc, error, steps, printed, stock_data, returns, market_cap,
          df_portfolio, sector_caps, sector_percentage, artifacts>>

\* pd.DataFrame(): no index, no columns
EmptyTable == [index |-> <<>>, columns |-> <<>>, data |-> <<>>]

\* the module-level steps in the order the script runs them
StepOrder ==
    <<"fetch_prices", "returns", "heatmap", "fetch_caps", "portfolio",
      "bar", "sector", "pie", "trend", "done">>

\* the order of a script that fetches everything before it computes
StepAfterFetchAll(p) ==
    LET order == <<"fetch_prices", "fetch_caps", "returns", "heatmap", "portfolio",
                   "bar", "sector", "pie", "trend", "done">>
    IN order[1 + CHOOSE i \in 1..Len(order) : order[i] = p]

\* the step that follows step p
StepAfter(p) == StepOrder[1 + CHOOSE i \in 1..Len(StepOrder) : StepOrder[i] = p]

\* no exception has left the script
NoError == [exc |-> "none", step |-> "none"]

Init ==
    /\ pc = "fetch_prices"
    /\ error = NoError
    /\ steps = <<>>
    /\ printed = {}
    /\ stock_data = [t \in TickerSet |-> NoFrame]
    /\ returns = EmptyTable
    /\ market_cap = [t \in TickerSet |-> None]
    /\ df_portfolio = <<>>
    /\ sector_caps = <<>>
    /\ sector_percentage = <<>>
    /\ artifacts = {}

\* an exception nobody catches: the interpreter prints the traceback and
\* exits.  The process and its tables are gone; what is left of the run is
\* its exit status, the steps it completed and the files it wrote.
Abort(exc) ==
    /\ pc' = "aborted"
    /\ error' = exc
    /\ printed' = {<<"Traceback", exc.exc>>}
    /\ stock_data' = [t \in TickerSet |-> NoFrame]
    /\ returns' = EmptyTable
    /\ market_cap' = [t \in TickerSet |-> None]
    /\ df_portfolio' = <<>>
    /\ sector_caps' = <<>>
    /\ sector_percentage' = <<>>
    /\ UNCHANGED <<steps, artifacts>>

\* a step that ran to its end
Advance(step) ==
    /\ pc' = StepAfter(step)
    /\ steps' = Append(steps, step)
    /\ error' = error

(* ---------------- step 1: fetch_stock_data ---------------- *)

\* the date sets a history can cover: nothing, or the window cut at one end
\* (the ticker started trading inside the window, or the provider does not
\* have the latest days yet)
Histories == {{}} \cup {a..b : a \in {1}, b \in Dates} \cup {a..b : a \in Dates, b \in {MaxDates}}

\* every history() call returns: ticker t gets the dates hist[t], possibly
\* none, and an empty history is reported
FetchStockData ==
    /\ pc = "fetch_prices"
    /\ \E hist \in [TickerSet -> Histories] :
         /\ stock_data' = [t \in TickerSet |-> Frame(hist[t], t)]
         /\ printed' = {<<"Warning: No data for", t>> :
                           t \in {u \in TickerSet : hist[u] = {}}}
    /\ Advance("fetch_prices")
    /\ UNCHANGED <<returns, market_cap, df_portfolio, sector_caps,
                   sector_percentage, artifacts>>

\* a history() call raises: the loop has no handler, `data` is never
\* returned and the exception leaves the script
FetchStockDataRaises ==
    /\ pc = "fetch_prices"
    /\ Abort([exc |-> "FetchError", step |-> "fetch_prices"])

(* ---------------- step 2: the returns table ---------------- *)

\* pct_change().fillna(0): the first entry 0 instead of NaN
pct_change_filled(close) ==
    [i \in 1..Len(close) |->
        IF i = 1 THEN Num(0, 1) ELSE Num(close[i] - close[i - 1], close[i - 1])]

\* Series.pct_change(): as long as the series, the first entry NaN
pct_change(close) ==
    [i \in 1..Len(close) |->
        IF i = 1 THEN NaN ELSE Num(close[i] - close[i - 1], close[i - 1])]

\* lines 41-43: the loop body's writes to df, which is the very object
\* stock_data holds
WithDailyReturn(df) ==
    [df EXCEPT !.DailyReturn = pct_change(df.Close),
               !.columns = @ \cup {"Daily Return"},
               !.index = [i \in 1..Len(df.index) |-> date_fmt(df.index[i])]]

\* Series.reindex(idx): the series' value at each label of idx, NaN where the
\* series has no such label
Reindex(sidx, svals, idx) ==
    [i \in 1..Len(idx) |->
        IF PosIn(sidx, idx[i]) > 0 THEN svals[PosIn(sidx, idx[i])] ELSE NaN]

\* returns[t] = series (line 44).  A frame without an index takes the index
\* of the series; a frame that has one aligns the series to it.
SetColumn(tab, t, sidx, svals) ==
    IF Len(tab.index) = 0
    THEN [index |-> sidx,
          columns |-> Append(tab.columns, t),
          data |-> Append([k \in 1..Len(tab.data) |-> [i \in 1..Len(sidx) |-> NaN]],
                          svals)]
    ELSE [index |-> tab.index,
          columns |-> Append(tab.columns, t),
          data |-> Append(tab.data, Reindex(sidx, svals, tab.index))]

\* lines 39-44 from the i-th ticker on: the frames and the table the loop
\* leaves behind
RECURSIVE ReturnsLoop(_, _, _)
ReturnsLoop(i, sd, tab) ==
    IF i > Len(Tickers) THEN [sd |-> sd, tab |-> tab]
    ELSE LET t == Tickers[i]
             df == sd[t]
         IN IF ~FrameEmpty(df) /\ "Close" \in df.columns
            THEN LET df2 == WithDailyReturn(df)
                 IN ReturnsLoop(i + 1, [sd EXCEPT ![t] = df2],
                                SetColumn(tab, t, df2.index, df2.DailyReturn))
            ELSE ReturnsLoop(i + 1, sd, tab)

\* the row positions S of an index of tickers, in the tickers' lexicographic
\* order
RECURSIVE LexOrder(_, _)
LexOrder(S, idx) ==
    IF S = {} THEN <<>>
    ELSE LET m == CHOOSE x \in S : \A y \in S : LexRank(idx[x]) <= LexRank(idx[y])
         IN <<m>> \o LexOrder(S \ {m}, idx)

\* DataFrame.T
Transpose(tab) ==
    [index |-> tab.columns,
     columns |-> tab.index,
     data |-> [r \in 1..Len(tab.columns) |->
                 [c \in 1..Len(tab.index) |-> tab.data[r][c]]]]

\* DataFrame.sort_index() on a table whose rows are tickers
SortIndex(tab) ==
    LET ord == LexOrder(1..Len(tab.index), tab.index)
    IN [index |-> [k \in 1..Len(ord) |-> tab.index[ord[k]]],
        columns |-> tab.columns,
        data |-> [k \in 1..Len(ord) |-> tab.data[ord[k]]]]

\* DataFrame.dropna(axis=1, how='all')
DropAllNaNColumns(tab) ==
    LET keep == SortedSeq({c \in 1..Len(tab.columns) :
                              \E r \in 1..Len(tab.index) : ~tab.data[r][c].nan})
    IN [index |-> tab.index,
        columns |-> [k \in 1..Len(keep) |-> tab.columns[keep[k]]],
        data |-> [r \in 1..Len(tab.index) |->
                    [k \in 1..Len(keep) |-> tab.data[r][keep[k]]]]]

ComputeReturns ==
    /\ pc = "returns"
    /\ LET out == ReturnsLoop(1, stock_data, EmptyTable)
       IN /\ stock_data' = out.sd
          /\ returns' = DropAllNaNColumns(SortIndex(Transpose(out.tab)))
    /\ Advance("returns")
    /\ printed' = {}
    /\ UNCHANGED <<market_cap, df_portfolio, sector_caps,
                   sector_percentage, artifacts>>

(* ---------------- charts ---------------- *)

\* the returns table has at least one cell
HeatmapDrawable == Len(returns.index) > 0 /\ Len(returns.columns) > 0

\* lines 52-75.  seaborn takes the minimum and maximum of the cells to pick
\* the colour range, which raises ValueError on a table without cells.
RenderHeatmap ==
    /\ pc = "heatmap"
    /\ HeatmapDrawable
    /\ artifacts' = artifacts \cup {"heatmap.png"}
    /\ Advance("heatmap")
    /\ printed' = {}
    /\ UNCHANGED <<stock_data, returns, market_cap, df_portfolio,
                   sector_caps, sector_percentage>>

RenderHeatmapRaises ==
    /\ pc = "heatmap"
    /\ ~HeatmapDrawable
    /\ Abort([exc |-> "ValueError", step |-> "heatmap"])

(* ---------------- step 3: fetch_market_caps ---------------- *)

\* what one ticker's lookup can do: report a cap, report none
\* (info.get("marketCap", None) is None), or raise
CapOutcomes ==
    {[raised |-> FALSE, value |-> Known(c)] : c \in 1..MaxCap}
        \cup {[raised |-> FALSE, value |-> None], [raised |-> TRUE, value |-> None]}

\* lines 78-89: each lookup is inside try/except, so the loop always reaches
\* its end; only a raised exception is printed
FetchMarketCaps ==
    /\ pc = "fetch_caps"
    /\ \E out \in [TickerSet -> CapOutcomes] :
         /\ market_cap' = [t \in TickerSet |-> out[t].value]
         /\ printed' = {<<"Error fetching market cap for", t>> :
                           t \in {u \in TickerSet : out[u].raised}}
    /\ Advance("fetch_caps")
    /\ UNCHANGED <<stock_data, returns, df_portfolio, sector_caps,
                   sector_percentage, artifacts>>

(* ---------------- fractions ---------------- *)

RECURSIVE GCD(_, _)
GCD(a, b) == IF b = 0 THEN a ELSE GCD(b, a % b)

Abs(n) == IF n < 0 THEN -n ELSE n

\* a fraction in lowest terms
Reduced(n, d) ==
    LET g == GCD(Abs(n), d) IN Num(n \div g, d \div g)

\* x + y; NaN if either is
FAdd(x, y) ==
    IF x.nan \/ y.nan THEN NaN
    ELSE LET g == GCD(x.den, y.den)
         IN Reduced(x.num * (y.den \div g) + y.num * (x.den \div g),
                    (x.den \div g) * y.den)

\* x * n for an integer n
FScale(x, n) == IF x.nan THEN NaN ELSE Reduced(x.num * n, x.den)

\* x / y for x >= 0, y >= 0 where x is a part of y, so that y = 0 only if
\* x = 0: the float quotient 0.0 / 0.0 is NaN
FDiv(x, y) ==
    IF x.nan \/ y.nan \/ y.num = 0 THEN NaN
    ELSE LET g == GCD(x.den, y.den)
         IN Reduced(x.num * (y.den \div g), (x.den \div g) * y.num)

\* x > y for two numbers
FGreater(x, y) == x.num * y.den > y.num * x.den

FEqual(x, y) == x.num * y.den = y.num * x.den

(* ---------------- steps 3-4: the ranked table ---------------- *)

\* lines 92-93: one row per configured ticker, in configuration order;
\* market_cap_crore = market_cap / 1e7, missing where market_cap is
PortfolioRows ==
    [i \in 1..Len(Tickers) |->
        LET t == Tickers[i]
        IN [ticker |-> t,
            sector |-> SectorOf(t),
            market_cap |-> market_cap[t],
            market_cap_crore |-> IF market_cap[t].known
                                 THEN Reduced(market_cap[t].cap, 10000000)
                                 ELSE NaN]]

\* all orderings of a finite set
RECURSIVE Orderings(_)
Orderings(S) ==
    IF S = {} THEN {<<>>}
    ELSE UNION {{<<x>> \o rest : rest \in Orderings(S \ {x})} : x \in S}

\* line 94: sort_values('market_cap_crore', ascending=False) with the default
\* kind='quicksort' and na_position='last'.  pandas sets the missing rows
\* aside, in their order, and sorts the others with an algorithm that it
\* documents as not stable: rows with equal keys come out in an order the
\* numpy build decides.  The results are all the descending orders of the
\* known rows, each followed by the missing rows.
SortValuesDescending(rows) ==
    LET known == {i \in 1..Len(rows) : ~rows[i].market_cap_crore.nan}
        missing == SortedSeq({i \in 1..Len(rows) : rows[i].market_cap_crore.nan})
        descending(o) ==
            \A k \in 1..(Len(o) - 1) :
                ~FGreater(rows[o[k + 1]].market_cap_crore, rows[o[k]].market_cap_crore)
    IN {[k \in 1..Len(rows) |-> rows[(o \o missing)[k]]] :
           o \in {q \in Orderings(known) : descending(q)}}

BuildPortfolio ==
    /\ pc = "portfolio"
    /\ df_portfolio' \in SortValuesDescending(PortfolioRows)
    /\ Advance("portfolio")
    /\ printed' = {}
    /\ UNCHANGED <<stock_data, returns, market_cap, sector_caps,
                   sector_percentage, artifacts>>

\* lines 97-108: one bar per row; a row without a value gets no bar
RenderBar ==
    /\ pc = "bar"
    /\ artifacts' = artifacts \cup {"marketcap.png"}
    /\ Advance("bar")
    /\ printed' = {}
    /\ UNCHANGED <<stock_data, returns, market_cap, df_portfolio,
                   sector_caps, sector_percentage>>

(* ---------------- step 5: sector allocation ---------------- *)

\* the group keys of groupby('sector'), which sorts them
Sectors == <<"Banking", "Consumer Services", "Financial Services">>

\* Series.sum() and GroupBy.sum(): missing values are skipped, and the sum of
\* nothing is 0
RECURSIVE SumSkipNa(_)
SumSkipNa(vals) ==
    IF vals = <<>> THEN Num(0, 1)
    ELSE IF Head(vals).nan THEN SumSkipNa(Tail(vals))
    ELSE FAdd(Head(vals), SumSkipNa(Tail(vals)))

\* the market_cap_crore values of a sector's rows, in table order
GroupValues(rows, sec) ==
    LET pos == SortedSeq({i \in 1..Len(rows) : rows[i].sector = sec})
    IN [k \in 1..Len(pos) |-> rows[pos[k]].market_cap_crore]

\* line 111
SectorCaps(rows) ==
    [k \in 1..Len(Sectors) |->
        [sector |-> Sectors[k], value |-> SumSkipNa(GroupValues(rows, Sectors[k]))]]

\* sector_caps.max(): the largest sector instead of the total
TotalAsMax(sc) ==
    LET vals == {sc[k].value : k \in 1..Len(sc)}
    IN CHOOSE v \in vals : \A w \in vals : ~FGreater(w, v)

\* sector_caps.sum()
TotalOf(sc) == SumSkipNa([k \in 1..Len(sc) |-> sc[k].value])

\* line 112
SectorPercentage(sc) ==
    [k \in 1..Len(sc) |->
        [sector |-> sc[k].sector, value |-> FScale(FDiv(sc[k].value, TotalOf(sc)), 100)]]

SectorAggregate ==
    /\ pc = "sector"
    /\ sector_caps' = SectorCaps(df_portfolio)
    /\ sector_percentage' = SectorPercentage(SectorCaps(df_portfolio))
    /\ Advance("sector")
    /\ printed' = {}
    /\ UNCHANGED <<stock_data, returns, market_cap, df_portfolio, artifacts>>

\* When no cap is known the market_cap column holds only None and has dtype
\* object, and so have the sums: line 112 then divides Python numbers,
\* 0 / 0, which raises ZeroDivisionError, where a float column gives NaN.
\* Which of the two happens depends on the pandas version.
SectorAggregateRaises ==
    /\ pc = "sector"
    /\ TotalOf(SectorCaps(df_portfolio)).num = 0
    /\ Abort([exc |-> "ZeroDivisionError", step |-> "sector"])

\* plt.pie computes each wedge's angles from its share: a NaN share raises
\* ValueError (cannot convert float NaN to integer)
PieDrawable == \A k \in 1..Len(sector_percentage) : ~sector_percentage[k].value.nan

\* lines 113-119
RenderPie ==
    /\ pc = "pie"
    /\ PieDrawable
    /\ artifacts' = artifacts \cup {"sector_allocation.png"}
    /\ Advance("pie")
    /\ printed' = {}
    /\ UNCHANGED <<stock_data, returns, market_cap, df_portfolio,
                   sector_caps, sector_percentage>>

RenderPieRaises ==
    /\ pc = "pie"
    /\ ~PieDrawable
    /\ Abort([exc |-> "ValueError", step |-> "pie"])

(* ---------------- steps 6-7: price trends and the report ---------------- *)

\* lines 124-132 from the i-th ticker on: "ok" when every ticker was
\* skipped or plotted, else the exception the first failing ticker raises.
\* A frame with rows is plotted from its Close column, after date_fmt is
\* applied to every entry of its index.
RECURSIVE PriceTrendLoop(_)
PriceTrendLoop(i) ==
    IF i > Len(Tickers) THEN "ok"
    ELSE LET data == stock_data[Tickers[i]]
         IN IF FrameEmpty(data) THEN PriceTrendLoop(i + 1)
            ELSE IF "Close" \notin data.columns THEN "KeyError"
            ELSE IF \E k \in 1..Len(data.index) : ~HasStrftime(data.index[k])
                 THEN "AttributeError"
            ELSE PriceTrendLoop(i + 1)

\* lines 122-184 when the loop raises nothing: the chart is saved, the email
\* body is composed from df_portfolio and sector_caps and written, and the
\* script prints its last line
PriceTrendAndReport ==
    /\ pc = "trend"
    /\ PriceTrendLoop(1) = "ok"
    /\ artifacts' = artifacts \cup {"price_trends.png", "email_body.html"}
    /\ printed' = {<<"Daily report generated", "all">>}
    /\ pc' = "done"
    /\ steps' = steps \o <<"trend", "email">>
    /\ UNCHANGED <<error, stock_data, returns, market_cap, df_portfolio,
                   sector_caps, sector_percentage>>

\* Step 2 turns the index of every frame that has rows into text, and a run
\* in which no frame has rows ends at the heatmap: the loop of step 6 is
\* never free of exceptions, so PriceTrendAndReport is never enabled and is
\* no disjunct of Next.
TrendNeverCompletes == pc = "trend" => PriceTrendLoop(1) # "ok"

PriceTrendRaises ==
    /\ pc = "trend"
    /\ PriceTrendLoop(1) # "ok"
    /\ Abort([exc |-> PriceTrendLoop(1), step |-> "trend"])

\* plt.savefig cannot write its file: an OSError nobody catches.  It can
\* happen at every chart whose drawing gets as far as savefig.
SaveFigRaises ==
    /\ \/ pc = "heatmap" /\ HeatmapDrawable
       \/ pc = "bar"
       \/ pc = "pie" /\ PieDrawable
       \/ pc = "trend" /\ PriceTrendLoop(1) = "ok"
    /\ Abort([exc |-> "OSError", step |-> pc])

Next ==
    \/ FetchStockData
    \/ FetchStockDataRaises
    \/ ComputeReturns
    \/ RenderHeatmap
    \/ RenderHeatmapRaises
    \/ FetchMarketCaps
    \/ BuildPortfolio
    \/ RenderBar
    \/ SectorAggregate
    \/ SectorAggregateRaises
    \/ RenderPie
    \/ RenderPieRaises
    \/ PriceTrendRaises
    \/ SaveFigRaises

Spec == Init /\ [][Next]_vars

(* ---------------- the run up to the end of step 2 ---------------- *)

NextReturns ==
    \/ FetchStockData
    \/ FetchStockDataRaises
    \/ ComputeReturns

SpecReturns == Init /\ [][NextReturns]_vars

(* ---------------- the run from step 3 on ---------------- *)

\* the state in which step 3 starts when the provider had the whole window
\* for every ticker
InitAggregate ==
    LET out == ReturnsLoop(1, [t \in TickerSet |-> Frame(Dates, t)], EmptyTable)
    IN /\ pc = "fetch_caps"
       /\ error = NoError
       /\ steps = <<"fetch_prices", "returns", "heatmap">>
       /\ printed = {}
       /\ stock_data = out.sd
       /\ returns = DropAllNaNColumns(SortIndex(Transpose(out.tab)))
       /\ market_cap = [t \in TickerSet |-> None]
       /\ df_portfolio = <<>>
       /\ sector_caps = <<>>
       /\ sector_percentage = <<>>
       /\ artifacts = {"heatmap.png"}

NextAggregate ==
    \/ FetchMarketCaps
    \/ BuildPortfolio
    \/ RenderBar
    \/ SectorAggregate
    \/ SectorAggregateRaises
    \/ RenderPie
    \/ RenderPieRaises
    \/ PriceTrendRaises
    \/ SaveFigRaises

SpecAggregate == InitAggregate /\ [][NextAggregate]_vars

(* ---------------- properties ---------------- *)

Completed(step) == step \in Range(steps)

Running == pc # "aborted"

\* the tickers whose market cap is missing after step 3
Missing == {t \in TickerSet : ~market_cap[t].known}

\* the number of set (non-NaN) entries of a series
SetCount(vals) == Cardinality({i \in 1..Len(vals) : ~vals[i].nan})

\* C1: a failed retrieval, of a price history or of a market cap, never ends
\* the run: the run is never aborted inside a fetch step.
C1_FetchFailureIsolated == ~(pc = "aborted" /\ error.step \in {"fetch_prices", "fetch_caps"})

\* C2: the ranked table holds every configured ticker once, known caps first
\* in descending order, missing caps last, and rows with equal or missing
\* caps in configuration order.
C2_RankedStable ==
    (Running /\ Completed("portfolio")) =>
        /\ Len(df_portfolio) = Len(Tickers)
        /\ {df_portfolio[i].ticker : i \in 1..Len(df_portfolio)} = TickerSet
        /\ \A i, j \in 1..Len(df_portfolio) :
              i < j =>
                LET a == df_portfolio[i]
                    b == df_portfolio[j]
                IN \/ ~a.market_cap_crore.nan /\ b.market_cap_crore.nan
                   \/ /\ ~a.market_cap_crore.nan /\ ~b.market_cap_crore.nan
                      /\ \/ FGreater(a.market_cap_crore, b.market_cap_crore)
                         \/ /\ FEqual(a.market_cap_crore, b.market_cap_crore)
                            /\ TickerNo(a.ticker) < TickerNo(b.ticker)
                   \/ /\ a.market_cap_crore.nan /\ b.market_cap_crore.nan
                      /\ TickerNo(a.ticker) < TickerNo(b.ticker)

\* C3: with every market cap missing the aggregation does not divide by
\* zero and does not fail, and the run goes on: the run is never ended by
\* anything but the file system in the sector step or its chart.
C3_AllMissingAggregates ==
    ~(pc = "aborted" /\ error.step \in {"sector", "pie"} /\ error.exc # "OSError")

\* the sum of the shares, NaN if any share is NaN
RECURSIVE ShareSum(_)
ShareSum(sp) ==
    IF sp = <<>> THEN Num(0, 1) ELSE FAdd(Head(sp).value, ShareSum(Tail(sp)))

\* |x - 100| <= 0.1
Within100(x) == ~x.nan /\ 10 * Abs(x.num - 100 * x.den) <= x.den

\* C4: once the shares are computed and some market cap is known, the
\* shares of all sectors sum to 100 within 0.1.
C4_SharesSumTo100 ==
    (Running /\ Completed("sector") /\ Missing # TickerSet) =>
        /\ Len(sector_percentage) = Len(Sectors)
        /\ Within100(ShareSum(sector_percentage))

\* C4's case: shares computed with one cap missing and two sectors holding
\* different, non-zero shares
C4_Witness ==
    /\ Running /\ Completed("sector")
    /\ Missing # {} /\ Missing # TickerSet
    /\ \E i, j \in 1..Len(sector_percentage) :
          /\ sector_percentage[i].value.num > 0
          /\ sector_percentage[j].value.num > 0
          /\ sector_percentage[i].value # sector_percentage[j].value

\* the dates on which some ticker has a return
UnionOfReturnDates ==
    UNION {{stock_data[t].index[i] :
               i \in {k \in 1..Len(stock_data[t].DailyReturn) :
                         ~stock_data[t].DailyReturn[k].nan}} : t \in TickerSet}

\* C5: the columns of the returns table are the union of the dates of all
\* tickers' return series.
C5_ColumnsAreUnion ==
    (Running /\ Completed("returns")) => Range(returns.columns) = UnionOfReturnDates

\* C6 as stated: N prices give N-1 returns when N >= 2 and none when N is 0
\* or 1, and a ticker with 0 or 1 prices has no row in the returns table.
C6_ShortSeriesNoRow ==
    (Running /\ Completed("returns")) =>
        \A t \in TickerSet :
            LET df == stock_data[t]
                N == Len(df.Close)
            IN /\ N >= 2 => SetCount(df.DailyReturn) = N - 1
               /\ N <= 1 => SetCount(df.DailyReturn) = 0 /\ t \notin Range(returns.index)

\* C6 as amended: a ticker with N >= 1 prices gets a return series of N
\* entries, the first unset and the other N-1 set, and a row in the returns
\* table (without a set cell when N = 1); a ticker with no prices gets no
\* return series and no row.
C6_ReturnSeriesLength ==
    (Running /\ Completed("returns")) =>
        \A t \in TickerSet :
            LET df == stock_data[t]
                N == Len(df.Close)
            IN IF N = 0
               THEN "Daily Return" \notin df.columns /\ t \notin Range(returns.index)
               ELSE /\ "Daily Return" \in df.columns
                    /\ Len(df.DailyReturn) = N
                    /\ df.DailyReturn[1].nan
                    /\ SetCount(df.DailyReturn) = N - 1
                    /\ t \in Range(returns.index)

\* C6's case: the returns are computed for a ticker without prices, one with
\* a single price and one with two or more
C6_Witness ==
    /\ Running /\ Completed("returns")
    /\ \E a, b, c \in TickerSet :
          /\ Len(stock_data[a].Close) = 0
          /\ Len(stock_data[b].Close) = 1
          /\ Len(stock_data[c].Close) >= 2

\* the files of the charts
Charts == {"heatmap.png", "marketcap.png", "sector_allocation.png", "price_trends.png"}

\* C7 as stated: fetch, compute, render, write, without overlap: a chart is
\* written only after every retrieval and every derived table is complete.
C7_PhasesInOrder ==
    (artifacts \cap Charts # {}) =>
        /\ Completed("fetch_prices") /\ Completed("fetch_caps")
        /\ Completed("returns") /\ Completed("portfolio") /\ Completed("sector")

\* the order of the script's steps
ScriptOrder ==
    <<"fetch_prices", "returns", "heatmap", "fetch_caps", "portfolio",
      "bar", "sector", "pie", "trend", "email">>

\* the file a step writes
FileOf(step) ==
    CASE step = "heatmap" -> {"heatmap.png"}
      [] step = "bar" -> {"marketcap.png"}
      [] step = "pie" -> {"sector_allocation.png"}
      [] step = "trend" -> {"price_trends.png"}
      [] step = "email" -> {"email_body.html"}
      [] OTHER -> {}

\* C7 as amended: the steps run one after the other in the script's order
\* (fetch prices, returns table, heatmap, fetch caps, ranked table, bar
\* chart, sector aggregate, pie chart, price trends, report), each complete
\* before the next starts: the completed steps are a prefix of that order,
\* the files written are those of the completed steps, and a table holds
\* data only once its step is complete.
C7_StepsInScriptOrder ==
    /\ Len(steps) <= Len(ScriptOrder)
    /\ \A i \in 1..Len(steps) : steps[i] = ScriptOrder[i]
    /\ artifacts = UNION {FileOf(steps[i]) : i \in 1..Len(steps)}
    /\ Running => pc = (IF Len(steps) = Len(ScriptOrder) THEN "done"
                        ELSE ScriptOrder[Len(steps) + 1])
    /\ Missing # TickerSet => Completed("fetch_caps")
    /\ returns # EmptyTable => Completed("returns")
    /\ df_portfolio # <<>> => Completed("portfolio")
    /\ sector_caps # <<>> => Completed("sector")

\* C7's case: the market caps are fetched after the heatmap was written, and
\* the run has got past the pie chart
C7_Witness ==
    /\ pc = "trend"
    /\ Missing # TickerSet
    /\ {"heatmap.png", "marketcap.png", "sector_allocation.png"} \subseteq artifacts

\* C8: a chart whose drawing fails does not keep the other three charts
\* from being written.
C8_ChartsIsolated ==
    (pc = "aborted" /\ error.step \in {"heatmap", "bar", "pie", "trend"}
                    /\ error.exc # "OSError")
        => (Charts \ FileOf(error.step)) \subseteq artifacts

\* the tickers of a sector
TickersOf(sec) == {t \in TickerSet : SectorOf(t) = sec}

\* C9: a sector all of whose tickers have a missing market cap has a missing
\* total and a missing share, not 0.
C9_MissingPropagates ==
    (Running /\ Completed("sector")) =>
        \A k \in 1..Len(sector_caps) :
            TickersOf(sector_caps[k].sector) \subseteq Missing =>
                /\ sector_caps[k].value.nan
                /\ sector_percentage[k].value.nan

\* C10: computing the returns leaves every fetched frame as it was, with its
\* dates as index and without a new column, and the price trend step never
\* fails on an index entry.
C10_PriceDataUnchanged ==
    /\ (Running /\ Completed("returns")) =>
          \A t \in TickerSet :
              /\ "Daily Return" \notin stock_data[t].columns
              /\ \A i \in 1..Len(stock_data[t].index) : HasStrftime(stock_data[t].index[i])
    /\ ~(pc = "aborted" /\ error.step = "trend" /\ error.exc = "AttributeError")

====
